---- MODULE Spec2Model ----
(***************************************************************************)
(* Model of score_server.py: the prompt scoring service with its three     *)
(* endpoints /score, /suggest-next and /infer-metadata.                    *)
(*                                                                         *)
(* Python strings are sequences of one-character strings, so that lower(), *)
(* strip(), split(), replace(), startswith() and slicing are computed on   *)
(* the characters the way the interpreter computes them.                   *)
(***************************************************************************)
EXTENDS Integers, Sequences, FiniteSets, TLC

VARIABLES ANTHROPIC_API_KEY, pc, endpoint, req, calls, inflight, reply, resp,
          fn_in, fn_out, fn_done

vars == <<ANTHROPIC_API_KEY, pc, endpoint, req, calls, inflight, reply, resp,
          fn_in, fn_out, fn_done>>

(***************************************************************************)
(* str methods                                                             *)
(***************************************************************************)
ToLower ==
  ("A" :> "a") @@ ("B" :> "b") @@ ("C" :> "c") @@ ("D" :> "d") @@ ("E" :> "e") @@
  ("F" :> "f") @@ ("G" :> "g") @@ ("H" :> "h") @@ ("I" :> "i") @@ ("J" :> "j") @@
  ("K" :> "k") @@ ("L" :> "l") @@ ("M" :> "m") @@ ("N" :> "n") @@ ("O" :> "o") @@
  ("P" :> "p") @@ ("Q" :> "q") @@ ("R" :> "r") @@ ("S" :> "s") @@ ("T" :> "t") @@
  ("U" :> "u") @@ ("V" :> "v") @@ ("W" :> "w") @@ ("X" :> "x") @@ ("Y" :> "y") @@
  ("Z" :> "z")

Whitespace == {" ", "\t", "\n", "\r", "\f"}

Digits == {"0", "1", "2", "3", "4", "5", "6", "7", "8", "9"}

\* the characters the regular expression class \w matches
WordChars ==
  DOMAIN ToLower \cup {ToLower[c] : c \in DOMAIN ToLower} \cup Digits \cup {"_"}

\* str.lower()
Lower(s) ==
  [i \in 1..Len(s) |-> IF s[i] \in DOMAIN ToLower THEN ToLower[s[i]] ELSE s[i]]

\* s[:n]
Take(s, n) == SubSeq(s, 1, IF n < Len(s) THEN n ELSE Len(s))

\* s[n:]
Drop(s, n) == SubSeq(s, n + 1, Len(s))

\* str.startswith(pre)
StartsWith(s, pre) == Len(pre) <= Len(s) /\ SubSeq(s, 1, Len(pre)) = pre

\* k in s
Contains(s, k) ==
  \E i \in 1..(Len(s) - Len(k) + 1) : SubSeq(s, i, i + Len(k) - 1) = k

\* any(k in s for k in ks)
ContainsAny(s, ks) == \E k \in ks : Contains(s, k)

RECURSIVE LStripChars(_, _)
\* str.lstrip(chars)
LStripChars(s, cs) ==
  IF s = <<>> \/ Head(s) \notin cs THEN s ELSE LStripChars(Tail(s), cs)

RECURSIVE RStripChars(_, _)
\* str.rstrip(chars)
RStripChars(s, cs) ==
  IF s = <<>> \/ s[Len(s)] \notin cs THEN s
  ELSE RStripChars(SubSeq(s, 1, Len(s) - 1), cs)

\* str.strip()
Strip(s) == RStripChars(LStripChars(s, Whitespace), Whitespace)

RECURSIVE SplitFrom(_, _, _)
SplitFrom(s, sep, cur) ==
  IF s = <<>> THEN <<cur>>
  ELSE IF Head(s) = sep THEN <<cur>> \o SplitFrom(Tail(s), sep, <<>>)
  ELSE SplitFrom(Tail(s), sep, Append(cur, Head(s)))

\* str.split(sep) for a one-character separator
Split(s, sep) == SplitFrom(s, sep, <<>>)

RECURSIVE Replace(_, _, _)
\* str.replace(old, new): every non-overlapping occurrence, left to right
Replace(s, old, new) ==
  IF Len(s) < Len(old) THEN s
  ELSE IF StartsWith(s, old) THEN new \o Replace(Drop(s, Len(old)), old, new)
  ELSE <<Head(s)>> \o Replace(Tail(s), old, new)

\* re.search(r"\b(w)\b", p, re.I) for a word w made of word characters
SearchWord(p, w) ==
  \E i \in 1..(Len(p) - Len(w) + 1) :
    /\ Lower(SubSeq(p, i, i + Len(w) - 1)) = w
    /\ (i = 1 \/ p[i - 1] \notin WordChars)
    /\ (i + Len(w) - 1 = Len(p) \/ p[i + Len(w)] \notin WordChars)

(***************************************************************************)
(* Goal detector                                                           *)
(***************************************************************************)
DebugKeywords == {<<"d", "e", "b", "u", "g">>, <<"f", "i", "x", " ", "b", "u", "g">>, <<"e", "r", "r", "o", "r">>, <<"n", "o", "t", " ", "w", "o", "r", "k", "i", "n", "g">>}
CodeKeywords == {<<"c", "o", "d", "e">>, <<"p", "y", "t", "h", "o", "n">>, <<"j", "a", "v", "a", "s", "c", "r", "i", "p", "t">>, <<"f", "u", "n", "c", "t", "i", "o", "n">>, <<"s", "c", "r", "i", "p", "t">>}
SummarizeKeywords == {<<"s", "u", "m", "m", "a", "r", "i", "z", "e">>, <<"t", "l", ";", "d", "r">>, <<"s", "u", "m", "m", "a", "r", "y">>, <<"c", "o", "n", "d", "e", "n", "s", "e">>}
WriteKeywords == {<<"w", "r", "i", "t", "e">>, <<"c", "o", "m", "p", "o", "s", "e">>, <<"d", "r", "a", "f", "t">>}
EmailKeywords == {<<"e", "m", "a", "i", "l">>, <<"l", "e", "t", "t", "e", "r">>, <<"m", "e", "s", "s", "a", "g", "e">>}
EssayKeywords == {<<"e", "s", "s", "a", "y">>, <<"a", "r", "t", "i", "c", "l", "e">>, <<"b", "l", "o", "g">>, <<"p", "o", "s", "t">>}
AnalyzeKeywords == {<<"a", "n", "a", "l", "y", "z", "e">>, <<"i", "n", "t", "e", "r", "p", "r", "e", "t">>, <<"e", "x", "a", "m", "i", "n", "e">>}
ExplainKeywords == {<<"e", "x", "p", "l", "a", "i", "n">>, <<"w", "h", "a", "t", " ", "i", "s">>, <<"h", "o", "w", " ", "d", "o", "e", "s">>, <<"w", "h", "y">>}
CompareKeywords == {<<"c", "o", "m", "p", "a", "r", "e">>, <<"v", "e", "r", "s", "u", "s">>, <<"v", "s">>, <<"d", "i", "f", "f", "e", "r", "e", "n", "c", "e", " ", "b", "e", "t", "w", "e", "e", "n">>}
TranslateKeywords == {<<"t", "r", "a", "n", "s", "l", "a", "t", "e">>, <<"t", "r", "a", "n", "s", "l", "a", "t", "i", "o", "n">>}
PlanKeywords == {<<"p", "l", "a", "n">>, <<"o", "u", "t", "l", "i", "n", "e">>, <<"s", "t", "e", "p", "s">>, <<"s", "c", "h", "e", "d", "u", "l", "e">>, <<"r", "o", "a", "d", "m", "a", "p">>}
BrainstormKeywords == {<<"b", "r", "a", "i", "n", "s", "t", "o", "r", "m">>, <<"i", "d", "e", "a", "s">>, <<"s", "u", "g", "g", "e", "s", "t">>}
ReviewKeywords == {<<"r", "e", "v", "i", "e", "w">>, <<"c", "r", "i", "t", "i", "q", "u", "e">>, <<"f", "e", "e", "d", "b", "a", "c", "k">>}

GoalDebug == <<"d", "e", "b", "u", "g", " ", "o", "r", " ", "f", "i", "x", " ", "c", "o", "d", "e">>
GoalCode == <<"g", "e", "n", "e", "r", "a", "t", "e", " ", "o", "r", " ", "w", "r", "i", "t", "e", " ", "c", "o", "d", "e">>
GoalSummarize == <<"s", "u", "m", "m", "a", "r", "i", "z", "e", " ", "t", "e", "x", "t", " ", "o", "r", " ", "c", "o", "n", "t", "e", "n", "t">>
GoalEmail == <<"w", "r", "i", "t", "e", " ", "a", "n", " ", "e", "m", "a", "i", "l", " ", "o", "r", " ", "m", "e", "s", "s", "a", "g", "e">>
GoalEssay == <<"w", "r", "i", "t", "e", " ", "a", "n", " ", "a", "r", "t", "i", "c", "l", "e", " ", "o", "r", " ", "e", "s", "s", "a", "y">>
GoalWrite == <<"w", "r", "i", "t", "e", " ", "o", "r", " ", "c", "r", "e", "a", "t", "e", " ", "c", "o", "n", "t", "e", "n", "t">>
GoalAnalyze == <<"a", "n", "a", "l", "y", "z", "e", " ", "o", "r", " ", "i", "n", "t", "e", "r", "p", "r", "e", "t", " ", "i", "n", "f", "o", "r", "m", "a", "t", "i", "o", "n">>
GoalExplain == <<"l", "e", "a", "r", "n", " ", "o", "r", " ", "u", "n", "d", "e", "r", "s", "t", "a", "n", "d", " ", "a", " ", "c", "o", "n", "c", "e", "p", "t">>
GoalCompare == <<"c", "o", "m", "p", "a", "r", "e", " ", "i", "d", "e", "a", "s", " ", "o", "r", " ", "o", "p", "t", "i", "o", "n", "s">>
GoalTranslate == <<"t", "r", "a", "n", "s", "l", "a", "t", "e", " ", "t", "e", "x", "t">>
GoalPlan == <<"c", "r", "e", "a", "t", "e", " ", "a", " ", "p", "l", "a", "n", " ", "o", "r", " ", "o", "u", "t", "l", "i", "n", "e">>
GoalBrainstorm == <<"b", "r", "a", "i", "n", "s", "t", "o", "r", "m", " ", "i", "d", "e", "a", "s">>
GoalReview == <<"g", "e", "t", " ", "f", "e", "e", "d", "b", "a", "c", "k", " ", "o", "r", " ", "r", "e", "v", "i", "e", "w">>
GoalGeneral == <<"g", "e", "n", "e", "r", "a", "l", " ", "r", "e", "a", "s", "o", "n", "i", "n", "g", " ", "o", "r", " ", "a", "s", "s", "i", "s", "t", "a", "n", "c", "e">>

\* a plausible slip: the generic code keywords tested before the debug keywords
detect_goal_code_first(p) ==
  LET p_low == Lower(p) IN
  IF ContainsAny(p_low, CodeKeywords) THEN GoalCode
  ELSE IF ContainsAny(p_low, DebugKeywords) THEN GoalDebug
  ELSE IF ContainsAny(p_low, SummarizeKeywords) THEN GoalSummarize
  ELSE IF ContainsAny(p_low, WriteKeywords) THEN
    IF ContainsAny(p_low, EmailKeywords) THEN GoalEmail
    ELSE IF ContainsAny(p_low, EssayKeywords) THEN GoalEssay
    ELSE GoalWrite
  ELSE IF ContainsAny(p_low, AnalyzeKeywords) THEN GoalAnalyze
  ELSE IF ContainsAny(p_low, ExplainKeywords) THEN GoalExplain
  ELSE IF ContainsAny(p_low, CompareKeywords) THEN GoalCompare
  ELSE IF ContainsAny(p_low, TranslateKeywords) THEN GoalTranslate
  ELSE IF ContainsAny(p_low, PlanKeywords) THEN GoalPlan
  ELSE IF ContainsAny(p_low, BrainstormKeywords) THEN GoalBrainstorm
  ELSE IF ContainsAny(p_low, ReviewKeywords) THEN GoalReview
  ELSE GoalGeneral

detect_goal(p) ==
  LET p_low == Lower(p) IN
  IF ContainsAny(p_low, DebugKeywords) THEN GoalDebug
  ELSE IF ContainsAny(p_low, CodeKeywords) THEN GoalCode
  ELSE IF ContainsAny(p_low, SummarizeKeywords) THEN GoalSummarize
  ELSE IF ContainsAny(p_low, WriteKeywords) THEN
    IF ContainsAny(p_low, EmailKeywords) THEN GoalEmail
    ELSE IF ContainsAny(p_low, EssayKeywords) THEN GoalEssay
    ELSE GoalWrite
  ELSE IF ContainsAny(p_low, AnalyzeKeywords) THEN GoalAnalyze
  ELSE IF ContainsAny(p_low, ExplainKeywords) THEN GoalExplain
  ELSE IF ContainsAny(p_low, CompareKeywords) THEN GoalCompare
  ELSE IF ContainsAny(p_low, TranslateKeywords) THEN GoalTranslate
  ELSE IF ContainsAny(p_low, PlanKeywords) THEN GoalPlan
  ELSE IF ContainsAny(p_low, BrainstormKeywords) THEN GoalBrainstorm
  ELSE IF ContainsAny(p_low, ReviewKeywords) THEN GoalReview
  ELSE GoalGeneral

(***************************************************************************)
(* Quality scorer                                                          *)
(***************************************************************************)
FloorScore == 10
BaseScore == 50
RoleBonus == 10
FormatBonus == 10
LengthCutoff == 80
LengthBonus == 5
ConstraintBonus == 10
SourcesBonus == 5
MinScore == 0
MaxScore == 100

RoleKeywords == {<<"r", "o", "l", "e", ":">>, <<"y", "o", "u", " ", "a", "r", "e">>, <<"a", "s", " ", "a", " ">>}
FormatKeywords == {<<"o", "u", "t", "p", "u", "t">>, <<"f", "o", "r", "m", "a", "t">>, <<"j", "s", "o", "n">>, <<"t", "a", "b", "l", "e">>}
ConstraintWords == {<<"a", "u", "d", "i", "e", "n", "c", "e">>, <<"t", "o", "n", "e">>, <<"l", "e", "n", "g", "t", "h">>, <<"d", "e", "a", "d", "l", "i", "n", "e">>, <<"e", "x", "a", "m", "p", "l", "e">>, <<"e", "x", "a", "m", "p", "l", "e", "s">>}

Min(a, b) == IF a < b THEN a ELSE b
Max(a, b) == IF a > b THEN a ELSE b

\* a plausible slip: the heuristics chained with elif, so the first that
\* triggers suppresses the others
score_prompt_elif(p) ==
  IF Strip(p) = <<>> THEN FloorScore
  ELSE
    LET bonus ==
          IF ContainsAny(Lower(p), RoleKeywords) THEN RoleBonus
          ELSE IF ContainsAny(Lower(p), FormatKeywords) THEN FormatBonus
          ELSE IF Len(p) > LengthCutoff THEN LengthBonus
          ELSE IF \E w \in ConstraintWords : SearchWord(p, w) THEN ConstraintBonus
          ELSE IF Contains(Lower(p), <<"s", "o", "u", "r", "c", "e", "s">>) \/ Contains(Lower(p), <<"c", "i", "t", "e">>)
            THEN SourcesBonus
          ELSE 0
    IN Max(MinScore, Min(MaxScore, BaseScore + bonus))

score_prompt(p) ==
  IF Strip(p) = <<>> THEN FloorScore
  ELSE
    LET s0 == BaseScore
        s1 == IF ContainsAny(Lower(p), RoleKeywords) THEN s0 + RoleBonus ELSE s0
        s2 == IF ContainsAny(Lower(p), FormatKeywords) THEN s1 + FormatBonus ELSE s1
        s3 == IF Len(p) > LengthCutoff THEN s2 + LengthBonus ELSE s2
        s4 == IF \E w \in ConstraintWords : SearchWord(p, w)
                THEN s3 + ConstraintBonus ELSE s3
        s5 == IF Contains(Lower(p), <<"s", "o", "u", "r", "c", "e", "s">>) \/ Contains(Lower(p), <<"c", "i", "t", "e">>)
                THEN s4 + SourcesBonus ELSE s4
    IN Max(MinScore, Min(MaxScore, s5))

(***************************************************************************)
(* Template rewriter                                                       *)
(***************************************************************************)
rewrite_prompt_simple(p, goal) ==
  <<"R", "o", "l", "e", ":", " ", "Y", "o", "u", " ", "a", "r", "e", " ", "a", " ", "h", "e", "l", "p", "f", "u", "l", " ", "a", "s", "s", "i", "s", "t", "a", "n", "t", ".", "\n">>
  \o <<"G", "o", "a", "l", ":", " ">> \o goal \o <<"\n">>
  \o <<"T", "a", "s", "k", ":", " ">> \o Strip(p) \o <<"\n">>
  \o <<"C", "o", "n", "s", "t", "r", "a", "i", "n", "t", "s", ":", " ", "B", "e", " ", "c", "l", "e", "a", "r", ",", " ", "c", "o", "n", "c", "i", "s", "e", ",", " ", "a", "n", "d", " ", "s", "t", "e", "p", "-", "b", "y", "-", "s", "t", "e", "p", ".", "\n">>
  \o <<"O", "u", "t", "p", "u", "t", " ", "f", "o", "r", "m", "a", "t", ":", " ", "B", "u", "l", "l", "e", "t", "e", "d", " ", "o", "u", "t", "l", "i", "n", "e", " ", "p", "l", "u", "s", " ", "a", " ", "o", "n", "e", "-", "s", "e", "n", "t", "e", "n", "c", "e", " ", "s", "u", "m", "m", "a", "r", "y", ".">>

(***************************************************************************)
(* The provider call.  A reply is what client.messages.create() does: it   *)
(* returns a message whose first content block carries text, returns a     *)
(* message with no content block, or raises (transport, auth, rate limit). *)
(***************************************************************************)
TextReply(t) == [kind |-> "text", text |-> t]
EmptyReply == [kind |-> "empty", text |-> <<>>]
RaiseReply == [kind |-> "raise", text |-> <<>>]
NoReply == [kind |-> "none", text |-> <<>>]

\* key = api_key or ANTHROPIC_API_KEY
EffectiveKey(api_key) == IF api_key # "" THEN api_key ELSE ANTHROPIC_API_KEY

\* message.content[0].text.strip() inside the try block: content[0] raises
\* IndexError on an empty content list, create() raises on its own failures
first_text(rep) ==
  IF rep.kind = "text" THEN [raised |-> FALSE, text |-> Strip(rep.text)]
  ELSE [raised |-> TRUE, text |-> <<>>]

Ok(body) == [status |-> 200, body |-> body]
NoResp == [status |-> 0, body |-> [detail |-> "none"]]

(***************************************************************************)
(* LLM rewrite orchestrator and /score                                     *)
(***************************************************************************)
Preambles ==
  << <<"h", "e", "r", "e", " ", "i", "s", " ", "t", "h", "e", " ", "r", "e", "w", "r", "i", "t", "t", "e", "n", " ", "p", "r", "o", "m", "p", "t", ":">>,
     <<"h", "e", "r", "e", "'", "s", " ", "t", "h", "e", " ", "r", "e", "w", "r", "i", "t", "t", "e", "n", " ", "p", "r", "o", "m", "p", "t", ":">>,
     <<"r", "e", "w", "r", "i", "t", "t", "e", "n", " ", "p", "r", "o", "m", "p", "t", ":">>,
     <<"i", "m", "p", "r", "o", "v", "e", "d", " ", "p", "r", "o", "m", "p", "t", ":">>,
     <<"h", "e", "r", "e", " ", "i", "s", " ", "a", "n", " ", "i", "m", "p", "r", "o", "v", "e", "d", " ", "v", "e", "r", "s", "i", "o", "n", ":">>,
     <<"h", "e", "r", "e", "'", "s", " ", "a", "n", " ", "i", "m", "p", "r", "o", "v", "e", "d", " ", "v", "e", "r", "s", "i", "o", "n", ":">> >>

\* the loop over preambles: strip the first one the lower-cased result starts
\* with, then stop
strip_preamble(result) ==
  LET result_lower == Lower(result)
      hits == {i \in 1..Len(Preambles) : StartsWith(result_lower, Preambles[i])}
  IN IF hits = {} THEN result
     ELSE LET i == CHOOSE h \in hits : \A g \in hits : h <= g
          IN Strip(Drop(result, Len(Preambles[i])))

\* rewrite_prompt_with_llm once the call has returned or raised
rewrite_after_call(p, goal, rep) ==
  LET r == first_text(rep) IN
  IF r.raised THEN rewrite_prompt_simple(p, goal) ELSE strip_preamble(r.text)

\* a plausible slip: the call made outside the try block
score_after_call_no_except(rq, rep) ==
  IF first_text(rep).raised
    THEN [status |-> 500, body |-> [detail |-> "Internal Server Error"]]
  ELSE LET goal == detect_goal(rq.text) IN
       Ok([score |-> score_prompt(rq.text),
           rewrite |-> strip_preamble(first_text(rep).text),
           goal |-> goal])

\* score(): the response once the provider call is over
score_after_call(rq, rep) ==
  LET goal == detect_goal(rq.text) IN
  Ok([score |-> score_prompt(rq.text),
      rewrite |-> rewrite_after_call(rq.text, goal, rep),
      goal |-> goal])

\* score() when rewrite_prompt_with_llm finds no key
score_no_key(rq) ==
  LET goal == detect_goal(rq.text) IN
  Ok([score |-> score_prompt(rq.text),
      rewrite |-> rewrite_prompt_simple(rq.text, goal),
      goal |-> goal])

(***************************************************************************)
(* Suggestion orchestrator                                                 *)
(***************************************************************************)
NoKeySuggestions ==
  << <<"C", "o", "n", "t", "i", "n", "u", "e", " ", "e", "x", "p", "l", "o", "r", "i", "n", "g", " ", "t", "h", "i", "s", " ", "t", "o", "p", "i", "c", " ", "i", "n", " ", "m", "o", "r", "e", " ", "d", "e", "p", "t", "h", ".">>,
     <<"C", "a", "n", " ", "y", "o", "u", " ", "p", "r", "o", "v", "i", "d", "e", " ", "a", " ", "p", "r", "a", "c", "t", "i", "c", "a", "l", " ", "e", "x", "a", "m", "p", "l", "e", "?">> >>

FailedSuggestions ==
  << <<"C", "a", "n", " ", "y", "o", "u", " ", "e", "l", "a", "b", "o", "r", "a", "t", "e", " ", "o", "n", " ", "t", "h", "e", " ", "k", "e", "y", " ", "p", "o", "i", "n", "t", "s", " ", "y", "o", "u", " ", "m", "e", "n", "t", "i", "o", "n", "e", "d", "?">>,
     <<"W", "h", "a", "t", " ", "a", "r", "e", " ", "s", "o", "m", "e", " ", "p", "r", "a", "c", "t", "i", "c", "a", "l", " ", "a", "p", "p", "l", "i", "c", "a", "t", "i", "o", "n", "s", " ", "o", "f", " ", "t", "h", "i", "s", "?">> >>

WantedSuggestions == 2

NumberingChars == Digits \cup {".", "-", ")", " "}

RECURSIVE parse_lines(_)
\* the loop over result.split('\n') that collects the cleaned candidates
parse_lines(lines) ==
  IF lines = <<>> THEN <<>>
  ELSE
    LET line == Strip(Head(lines))
        cleaned == Strip(LStripChars(line, NumberingChars))
        rest == parse_lines(Tail(lines))
    IN IF line # <<>> /\ (line[1] \in Digits \/ StartsWith(line, <<"-">>)) /\ cleaned # <<>>
         THEN <<cleaned>> \o rest
         ELSE rest

\* a plausible slip: a short list padded with fallback text instead of replaced
choose_suggestions_padded(suggestions) ==
  IF Len(suggestions) < WantedSuggestions
    THEN suggestions \o SubSeq(FailedSuggestions, 1, WantedSuggestions - Len(suggestions))
  ELSE IF Len(suggestions) > WantedSuggestions
    THEN SubSeq(suggestions, 1, WantedSuggestions)
  ELSE suggestions

\* "Ensure we have exactly 2 suggestions"
choose_suggestions(suggestions) ==
  IF Len(suggestions) < WantedSuggestions THEN FailedSuggestions
  ELSE IF Len(suggestions) > WantedSuggestions
    THEN SubSeq(suggestions, 1, WantedSuggestions)
  ELSE suggestions

\* a plausible slip: the except branch reusing the no-key list
suggest_after_call_one_list(rq, rep) ==
  LET r == first_text(rep) IN
  IF r.raised THEN Ok([suggestions |-> NoKeySuggestions])
  ELSE Ok([suggestions |-> choose_suggestions(parse_lines(Split(r.text, "\n")))])

\* suggest_next(): the response once the provider call is over
suggest_after_call(rq, rep) ==
  LET r == first_text(rep) IN
  IF r.raised THEN Ok([suggestions |-> FailedSuggestions])
  ELSE Ok([suggestions |-> choose_suggestions(parse_lines(Split(r.text, "\n")))])

\* suggest_next() when there is no key
suggest_no_key(rq) == Ok([suggestions |-> NoKeySuggestions])

(***************************************************************************)
(* Metadata orchestrator                                                   *)
(***************************************************************************)
TitleCutoff == 50
Ellipsis == <<".", ".", ".">>
UntitledPrompt == <<"U", "n", "t", "i", "t", "l", "e", "d", " ", "P", "r", "o", "m", "p", "t">>
Categories == {<<"c", "o", "d", "i", "n", "g">>, <<"w", "r", "i", "t", "i", "n", "g">>, <<"a", "n", "a", "l", "y", "s", "i", "s">>, <<"c", "r", "e", "a", "t", "i", "v", "e">>, <<"o", "t", "h", "e", "r">>}
TitlePrefix == <<"T", "I", "T", "L", "E", ":">>
CategoryPrefix == <<"C", "A", "T", "E", "G", "O", "R", "Y", ":">>

\* a plausible slip: >= in place of >
fallback_title_at_cutoff(prompt) ==
  IF Len(prompt) >= TitleCutoff THEN Take(prompt, TitleCutoff) \o Ellipsis ELSE prompt

\* req.prompt[:50] + "..." if len(req.prompt) > 50 else req.prompt
fallback_title(prompt) ==
  IF Len(prompt) > TitleCutoff THEN Take(prompt, TitleCutoff) \o Ellipsis ELSE prompt

fallback_metadata(prompt) == [title |-> fallback_title(prompt), category |-> <<"o", "t", "h", "e", "r">>]

RECURSIVE parse_metadata(_, _)
\* the loop over result.split('\n'); m is {title, category} so far
parse_metadata(lines, m) ==
  IF lines = <<>> THEN m
  ELSE
    LET line == Strip(Head(lines)) IN
    IF StartsWith(line, TitlePrefix)
      THEN parse_metadata(Tail(lines),
             [m EXCEPT !.title = Strip(Replace(line, TitlePrefix, <<>>))])
    ELSE IF StartsWith(line, CategoryPrefix)
      THEN LET cat == Lower(Strip(Replace(line, CategoryPrefix, <<>>))) IN
           parse_metadata(Tail(lines),
             IF cat \in Categories THEN [m EXCEPT !.category = cat] ELSE m)
    ELSE parse_metadata(Tail(lines), m)

IsTitleLine(l) == StartsWith(Strip(l), TitlePrefix)
IsCategoryLine(l) == StartsWith(Strip(l), CategoryPrefix)

\* a plausible slip: a response missing either line treated like a failed call
infer_after_call_all_or_nothing(rq, rep) ==
  LET r == first_text(rep)
      lines == Split(r.text, "\n")
  IN IF r.raised
          \/ ~(\E i \in 1..Len(lines) : IsTitleLine(lines[i]))
          \/ ~(\E i \in 1..Len(lines) : IsCategoryLine(lines[i]))
       THEN Ok(fallback_metadata(rq.prompt))
       ELSE Ok(parse_metadata(lines, [title |-> UntitledPrompt, category |-> <<"o", "t", "h", "e", "r">>]))

\* infer_metadata(): the response once the provider call is over
infer_after_call(rq, rep) ==
  LET r == first_text(rep) IN
  IF r.raised THEN Ok(fallback_metadata(rq.prompt))
  ELSE Ok(parse_metadata(Split(r.text, "\n"),
                         [title |-> UntitledPrompt, category |-> <<"o", "t", "h", "e", "r">>]))

\* infer_metadata() when there is no key
infer_no_key(rq) == Ok(fallback_metadata(rq.prompt))

(***************************************************************************)
(* Inputs                                                                  *)
(***************************************************************************)
MaxGoalWords == 2
MaxScoreWords == 2
MaxSuggestLines == 3
MaxMetaLines == 2

RECURSIVE Join(_, _)
\* sep.join(ws)
Join(ws, sep) ==
  IF ws = <<>> THEN <<>>
  ELSE IF Len(ws) = 1 THEN ws[1]
  ELSE ws[1] \o sep \o Join(Tail(ws), sep)

SeqsUpTo(S, n) == UNION {[1..k -> S] : k \in 0..n}

Pad(n) == [i \in 1..n |-> "x"]

GoalWords ==
  { <<"d", "e", "b", "u", "g">>, <<"E", "R", "R", "O", "R">>, <<"f", "i", "x">>, <<"b", "u", "g">>, <<"c", "o", "d", "e">>, <<"s", "u", "m", "m", "a", "r", "y">>, <<"w", "r", "i", "t", "e">>, <<"D", "r", "a", "f", "t">>, <<"e", "m", "a", "i", "l">>,
    <<"e", "s", "s", "a", "y">>, <<"a", "n", "a", "l", "y", "z", "e">>, <<"w", "h", "y">>, <<"v", "s">>, <<"t", "r", "a", "n", "s", "l", "a", "t", "e">>, <<"p", "l", "a", "n">>, <<"i", "d", "e", "a", "s">>, <<"r", "e", "v", "i", "e", "w">>, <<"p", "o", "e", "m">> }

GoalTexts == {Join(ws, <<" ">>) : ws \in SeqsUpTo(GoalWords, MaxGoalWords)}

ScoreWords ==
  { <<"Y", "o", "u", " ", "a", "r", "e">>, <<"r", "o", "l", "e", ":">>, <<"J", "S", "O", "N">>, <<"t", "o", "n", "e">>, <<"s", "t", "o", "n", "e">>, <<"E", "x", "a", "m", "p", "l", "e", "s">>, <<"c", "i", "t", "e">>, <<"s", "o", "u", "r", "c", "e", "s">>,
    <<"o", "k">>, <<" ", " ">>, Pad(LengthCutoff), Pad(LengthCutoff + 1) }

ScoreTexts == {Join(ws, <<" ">>) : ws \in SeqsUpTo(ScoreWords, MaxScoreWords)}

EnvKeys == {"", "sk-env"}
ApiKeys == {"", "sk-req"}

RequestTexts == { <<>>, <<"d", "e", "b", "u", "g", " ", "t", "h", "i", "s", " ", "c", "o", "d", "e">>, <<" ", " ", "w", "r", "i", "t", "e", " ", "a", "n", " ", "e", "m", "a", "i", "l", " ", "t", "o", " ", "m", "y", " ", "b", "o", "s", "s", " ">>, <<"s", "o", "r", "t", " ", "a", " ", "l", "i", "s", "t">> }

RewriteReplies ==
  { TextReply(<<"H", "e", "r", "e", " ", "i", "s", " ", "t", "h", "e", " ", "r", "e", "w", "r", "i", "t", "t", "e", "n", " ", "p", "r", "o", "m", "p", "t", ":", "\n", "R", "o", "l", "e", ":", " ", "Y", "o", "u", " ", "a", "r", "e", " ", "a", "n", " ", "e", "x", "p", "e", "r", "t", ".">>),
    TextReply(<<" ", " ", "I", "M", "P", "R", "O", "V", "E", "D", " ", "P", "R", "O", "M", "P", "T", ":", " ", " ", "A", "c", "t", " ", "a", "s", " ", "a", " ", "r", "e", "v", "i", "e", "w", "e", "r", ".", " ">>),
    TextReply(<<"R", "o", "l", "e", ":", " ", "Y", "o", "u", " ", "a", "r", "e", " ", "a", "n", " ", "e", "x", "p", "e", "r", "t", ".">>),
    TextReply(<<>>),
    EmptyReply, RaiseReply }

SuggestLines ==
  { <<"1", ".", " ", "E", "x", "p", "l", "o", "r", "e", " ", "X">>, <<"2", ")", " ", "T", "r", "y", " ", "Y">>, <<"-", " ", "A", "s", "k", " ", "Z", " ">>, <<"H", "e", "r", "e", " ", "a", "r", "e", " ", "t", "w", "o", " ", "i", "d", "e", "a", "s", ":">>, <<"3", ".">>, <<>> }

SuggestReplies ==
  {TextReply(Join(ls, <<"\n">>)) : ls \in SeqsUpTo(SuggestLines, MaxSuggestLines)}
  \cup {EmptyReply, RaiseReply}

MetaLines ==
  { <<"T", "I", "T", "L", "E", ":", " ", "F", "i", "x", " ", "L", "o", "g", "i", "n", " ", "B", "u", "g">>, <<" ", " ", "T", "I", "T", "L", "E", ":", "S", "o", "r", "t", " ", "A", " ", "L", "i", "s", "t", " ">>, <<"T", "I", "T", "L", "E", ":">>, <<"T", "I", "T", "L", "E", ":", " ", "U", "s", "i", "n", "g", " ", "T", "I", "T", "L", "E", ":", " ", "L", "i", "n", "e", "s">>,
    <<"C", "A", "T", "E", "G", "O", "R", "Y", ":", " ", "c", "o", "d", "i", "n", "g">>, <<"C", "A", "T", "E", "G", "O", "R", "Y", ":", " ", "W", "r", "i", "t", "i", "n", "g", " ">>, <<"C", "A", "T", "E", "G", "O", "R", "Y", ":", " ", "n", "o", "n", "s", "e", "n", "s", "e">>,
    <<"C", "A", "T", "E", "G", "O", "R", "Y", ":", " ", "C", "A", "T", "E", "G", "O", "R", "Y", ":", " ", "c", "o", "d", "i", "n", "g">>, <<"S", "u", "r", "e", ",", " ", "h", "e", "r", "e", " ", "y", "o", "u", " ", "g", "o", ":">>, <<>> }

MetaReplies ==
  {TextReply(Join(ls, <<"\n">>)) : ls \in SeqsUpTo(MetaLines, MaxMetaLines)}
  \cup {EmptyReply, RaiseReply}

Prompts ==
  { <<"s", "o", "r", "t", " ", "a", " ", "l", "i", "s", "t">>, Pad(TitleCutoff), Pad(TitleCutoff + 1), Pad(TitleCutoff + 10) }

NoReq == [api_key |-> ""]

(***************************************************************************)
(* The service.  A handler runs from the request to the provider call (or  *)
(* to its return when there is no key), blocks in the call, and runs from  *)
(* the call's outcome to its return.                                       *)
(***************************************************************************)
Init ==
  /\ ANTHROPIC_API_KEY \in EnvKeys
  /\ pc = "idle"
  /\ endpoint = "none"
  /\ req = NoReq
  /\ calls = 0
  /\ inflight = 0
  /\ reply = NoReply
  /\ resp = NoResp
  /\ fn_in = <<>>
  /\ fn_out = <<>>
  /\ fn_done = TRUE

\* a handler up to its provider call: with no key it returns noKeyResp
Begin(ep, rq, noKeyResp) ==
  /\ endpoint' = ep
  /\ req' = rq
  /\ reply' = NoReply
  /\ IF EffectiveKey(rq.api_key) = ""
       THEN /\ pc' = "responded"
            /\ resp' = noKeyResp
            /\ UNCHANGED <<calls, inflight>>
       ELSE /\ pc' = "awaiting"
            /\ resp' = NoResp
            /\ calls' = calls + 1
            /\ inflight' = inflight + 1
  /\ UNCHANGED <<ANTHROPIC_API_KEY, fn_in, fn_out, fn_done>>

\* a handler from the outcome of its provider call to its return
Return(rep, r) ==
  /\ reply' = rep
  /\ inflight' = inflight - 1
  /\ resp' = r
  /\ pc' = "responded"
  /\ UNCHANGED <<ANTHROPIC_API_KEY, endpoint, req, calls, fn_in, fn_out, fn_done>>

ScoreRequest(text, api_key) ==
  /\ pc = "idle"
  /\ Begin("score", [text |-> text, api_key |-> api_key],
           score_no_key([text |-> text, api_key |-> api_key]))

\* a plausible slip: the call retried after a failure
ScoreReturn_retry(rep) ==
  /\ pc = "awaiting"
  /\ endpoint = "score"
  /\ IF first_text(rep).raised /\ calls < 2
       THEN /\ reply' = rep
            /\ calls' = calls + 1
            /\ UNCHANGED <<ANTHROPIC_API_KEY, pc, endpoint, req, inflight, resp,
                           fn_in, fn_out, fn_done>>
       ELSE Return(rep, score_after_call(req, rep))

ScoreReturn(rep) ==
  /\ pc = "awaiting"
  /\ endpoint = "score"
  /\ Return(rep, score_after_call(req, rep))

SuggestRequest(last_prompt, last_response, api_key) ==
  /\ pc = "idle"
  /\ Begin("suggest",
           [last_prompt |-> last_prompt, last_response |-> last_response,
            api_key |-> api_key],
           suggest_no_key([last_prompt |-> last_prompt,
                           last_response |-> last_response, api_key |-> api_key]))

SuggestReturn(rep) ==
  /\ pc = "awaiting"
  /\ endpoint = "suggest"
  /\ Return(rep, suggest_after_call(req, rep))

InferRequest(prompt, api_key) ==
  /\ pc = "idle"
  /\ Begin("infer", [prompt |-> prompt, api_key |-> api_key],
           infer_no_key([prompt |-> prompt, api_key |-> api_key]))

InferReturn(rep) ==
  /\ pc = "awaiting"
  /\ endpoint = "infer"
  /\ Return(rep, infer_after_call(req, rep))

\* the response is sent and everything request-scoped is discarded
Finish ==
  /\ pc = "responded"
  /\ pc' = "idle"
  /\ endpoint' = "none"
  /\ req' = NoReq
  /\ calls' = 0
  /\ inflight' = 0
  /\ reply' = NoReply
  /\ resp' = NoResp
  /\ UNCHANGED <<ANTHROPIC_API_KEY, fn_in, fn_out, fn_done>>

Next ==
  \/ \E t \in RequestTexts, k \in ApiKeys : ScoreRequest(t, k)
  \/ \E rep \in RewriteReplies : ScoreReturn(rep)
  \/ \E k \in ApiKeys : SuggestRequest(<<"h", "o", "w", " ", "d", "o", " ", "I", " ", "s", "o", "r", "t", " ", "a", " ", "l", "i", "s", "t", "?">>, <<"U", "s", "e", " ", "s", "o", "r", "t", "e", "d", "(", ")", ".">>, k)
  \/ \E rep \in SuggestReplies : SuggestReturn(rep)
  \/ \E p \in Prompts, k \in ApiKeys : InferRequest(p, k)
  \/ \E rep \in MetaReplies : InferReturn(rep)
  \/ Finish

Spec == Init /\ [][Next]_vars

(***************************************************************************)
(* detect_goal and score_prompt on their own                               *)
(***************************************************************************)
ServiceIdle ==
  /\ ANTHROPIC_API_KEY = ""
  /\ pc = "idle"
  /\ endpoint = "none"
  /\ req = NoReq
  /\ calls = 0
  /\ inflight = 0
  /\ reply = NoReply
  /\ resp = NoResp

ServiceVars == <<ANTHROPIC_API_KEY, pc, endpoint, req, calls, inflight, reply, resp>>

InitGoal == ServiceIdle /\ fn_in \in GoalTexts /\ fn_out = <<>> /\ fn_done = FALSE

ApplyDetectGoal ==
  /\ ~fn_done
  /\ fn_out' = detect_goal(fn_in)
  /\ fn_done' = TRUE
  /\ UNCHANGED <<ServiceVars, fn_in>>

SpecGoal == InitGoal /\ [][ApplyDetectGoal]_vars

InitScore == ServiceIdle /\ fn_in \in ScoreTexts /\ fn_out = 0 /\ fn_done = FALSE

ApplyScorePrompt ==
  /\ ~fn_done
  /\ fn_out' = score_prompt(fn_in)
  /\ fn_done' = TRUE
  /\ UNCHANGED <<ServiceVars, fn_in>>

SpecScore == InitScore /\ [][ApplyScorePrompt]_vars

(***************************************************************************)
(* Properties                                                              *)
(***************************************************************************)
Responded(ep) == pc = "responded" /\ endpoint = ep
Failed == reply.kind \in {"raise", "empty"}
Answered == reply.kind = "text"

\* the lines of the provider text as the handlers split it
ReplyLines == Split(Strip(reply.text), "\n")

\* the suggestion candidates recovered from the provider text
Candidates == parse_lines(ReplyLines)

\* C1: every handler return, whatever the provider call did (text, no content
\* block, an exception), is a 200 response carrying exactly the endpoint's
\* fields; no error escapes.
C1_AlwaysWellFormed ==
  pc = "responded" =>
    /\ resp.status = 200
    /\ endpoint = "score" =>
         /\ DOMAIN resp.body = {"score", "rewrite", "goal"}
         /\ resp.body.score \in 0..100
    /\ endpoint = "suggest" =>
         /\ DOMAIN resp.body = {"suggestions"}
         /\ Len(resp.body.suggestions) = 2
    /\ endpoint = "infer" => DOMAIN resp.body = {"title", "category"}

C1_Witness == Responded("score") /\ reply.kind = "empty" /\ resp.status = 200

\* C2: with no key in the request and none in the environment no provider
\* call is issued; /score's rewrite is the template rewrite of (text, detected
\* goal) and /infer-metadata answers category "other" with the prompt as title
\* when it has at most 50 characters, else its first 50 characters and "...".
C2_NoCredentialNoCall ==
  (pc # "idle" /\ req.api_key = "" /\ ANTHROPIC_API_KEY = "") =>
    /\ pc = "responded"
    /\ calls = 0
    /\ inflight = 0
    /\ reply = NoReply
    /\ endpoint = "score" =>
         resp.body.rewrite = rewrite_prompt_simple(req.text, detect_goal(req.text))
    /\ endpoint = "infer" =>
         /\ resp.body.category = <<"o", "t", "h", "e", "r">>
         /\ resp.body.title =
              IF Len(req.prompt) <= 50 THEN req.prompt
              ELSE SubSeq(req.prompt, 1, 50) \o <<".", ".", ".">>

C2_Witness ==
  /\ Responded("infer")
  /\ req.api_key = "" /\ ANTHROPIC_API_KEY = ""
  /\ Len(req.prompt) = 60
  /\ Len(resp.body.title) = 53
  /\ calls = 0

\* C3: /suggest-next always returns exactly 2 suggestions; fewer than 2
\* recovered candidates are all discarded for the static list, more than 2 are
\* cut to the first 2 in their order.
C3_ExactlyTwo ==
  Responded("suggest") =>
    /\ Len(resp.body.suggestions) = 2
    /\ Answered /\ Len(Candidates) < 2 =>
         /\ resp.body.suggestions = FailedSuggestions
         /\ \A i \in 1..Len(Candidates) :
              \A j \in 1..2 : resp.body.suggestions[j] # Candidates[i]
    /\ Answered /\ Len(Candidates) > 2 =>
         resp.body.suggestions = <<Candidates[1], Candidates[2]>>
    /\ ~Answered => resp.body.suggestions \in {NoKeySuggestions, FailedSuggestions}

C3_Witness ==
  /\ Responded("suggest") /\ Answered
  /\ Len(Candidates) = 1
  /\ resp.body.suggestions = FailedSuggestions

\* C4 as stated: a failed provider call and a parse that recovers fewer than
\* 2 candidates return the list the no-credential path returns.
C4_SameListAsNoCredential ==
  (Responded("suggest") /\ (Failed \/ (Answered /\ Len(Candidates) < 2))) =>
    resp.body.suggestions = suggest_no_key(req).body.suggestions

\* C4 amended: a failed provider call and a parse that recovers fewer than 2
\* candidates return one and the same fixed 2-item list, and the
\* no-credential path returns a different fixed 2-item list.
C4_TwoFixedLists ==
  /\ (Responded("suggest") /\ (Failed \/ (Answered /\ Len(Candidates) < 2))) =>
       resp.body.suggestions =
         << <<"C", "a", "n", " ", "y", "o", "u", " ", "e", "l", "a", "b", "o", "r", "a", "t", "e", " ", "o", "n", " ", "t", "h", "e", " ", "k", "e", "y", " ", "p", "o", "i", "n", "t", "s", " ", "y", "o", "u", " ", "m", "e", "n", "t", "i", "o", "n", "e", "d", "?">>,
            <<"W", "h", "a", "t", " ", "a", "r", "e", " ", "s", "o", "m", "e", " ", "p", "r", "a", "c", "t", "i", "c", "a", "l", " ", "a", "p", "p", "l", "i", "c", "a", "t", "i", "o", "n", "s", " ", "o", "f", " ", "t", "h", "i", "s", "?">> >>
  /\ (Responded("suggest") /\ reply = NoReply) =>
       /\ resp.body.suggestions =
            << <<"C", "o", "n", "t", "i", "n", "u", "e", " ", "e", "x", "p", "l", "o", "r", "i", "n", "g", " ", "t", "h", "i", "s", " ", "t", "o", "p", "i", "c", " ", "i", "n", " ", "m", "o", "r", "e", " ", "d", "e", "p", "t", "h", ".">>,
               <<"C", "a", "n", " ", "y", "o", "u", " ", "p", "r", "o", "v", "i", "d", "e", " ", "a", " ", "p", "r", "a", "c", "t", "i", "c", "a", "l", " ", "e", "x", "a", "m", "p", "l", "e", "?">> >>
       /\ resp.body.suggestions # FailedSuggestions

C4_Witness ==
  /\ Responded("suggest") /\ reply.kind = "raise"
  /\ resp.body.suggestions = FailedSuggestions
  /\ resp.body.suggestions # NoKeySuggestions

RECURSIVE ClaimedCategory(_, _)
\* the category the lines yield when the remainder after the prefix decides
ClaimedCategory(lines, cat) ==
  IF lines = <<>> THEN cat
  ELSE
    LET line == Strip(Head(lines))
        rem == Lower(Strip(Drop(line, Len(CategoryPrefix))))
    IN IF StartsWith(line, CategoryPrefix) /\ rem \in Categories
         THEN ClaimedCategory(Tail(lines), rem)
         ELSE ClaimedCategory(Tail(lines), cat)

\* C5: the category returned by /infer-metadata is always one of the five,
\* and a CATEGORY: line changes it only when the trimmed, lower-cased
\* remainder of the line after the prefix is one of the five.
C5_CategoryByRemainder ==
  Responded("infer") =>
    /\ resp.body.category \in Categories
    /\ Answered => resp.body.category = ClaimedCategory(ReplyLines, <<"o", "t", "h", "e", "r">>)

\* C6 as stated: a response with fewer than 2 suggestion lines, or a metadata
\* response without a TITLE: line or without a usable CATEGORY: line, gives
\* the endpoint's fallback output.
C6_MalformedRevertsToFallback ==
  /\ (Responded("suggest") /\ Answered /\ Len(Candidates) < 2) =>
       resp.body.suggestions = FailedSuggestions
  /\ (Responded("infer") /\ Answered
      /\ (\/ ~(\E i \in 1..Len(ReplyLines) : IsTitleLine(ReplyLines[i]))
          \/ ~(\E i \in 1..Len(ReplyLines) :
                 /\ IsCategoryLine(ReplyLines[i])
                 /\ Lower(Strip(Drop(Strip(ReplyLines[i]), Len(CategoryPrefix))))
                      \in Categories))) =>
       resp.body = fallback_metadata(req.prompt)

\* C6 amended: fewer than 2 suggestion lines give the static list; in a
\* metadata response each field is defaulted on its own: no TITLE: line gives
\* the title "Untitled Prompt", no CATEGORY: line gives the category "other",
\* and either field is what its own lines yield whatever the other lines are.
C6_FieldsDefaultSeparately ==
  /\ (Responded("suggest") /\ Answered /\ Len(Candidates) < 2) =>
       resp.body.suggestions = FailedSuggestions
  /\ (Responded("infer") /\ Answered) =>
       LET none == [title |-> UntitledPrompt, category |-> <<"o", "t", "h", "e", "r">>] IN
       /\ ~(\E i \in 1..Len(ReplyLines) : IsTitleLine(ReplyLines[i])) =>
            resp.body.title = <<"U", "n", "t", "i", "t", "l", "e", "d", " ", "P", "r", "o", "m", "p", "t">>
       /\ ~(\E i \in 1..Len(ReplyLines) : IsCategoryLine(ReplyLines[i])) =>
            resp.body.category = <<"o", "t", "h", "e", "r">>
       /\ resp.body.title =
            parse_metadata(SelectSeq(ReplyLines, IsTitleLine), none).title
       /\ resp.body.category =
            parse_metadata(SelectSeq(ReplyLines, IsCategoryLine), none).category

C6_Witness ==
  /\ Responded("infer") /\ Answered
  /\ \E i \in 1..Len(ReplyLines) : IsTitleLine(ReplyLines[i])
  /\ ~(\E i \in 1..Len(ReplyLines) : IsCategoryLine(ReplyLines[i]))
  /\ resp.body.title = <<"F", "i", "x", " ", "L", "o", "g", "i", "n", " ", "B", "u", "g">>
  /\ resp.body.category = <<"o", "t", "h", "e", "r">>
  /\ resp.body # fallback_metadata(req.prompt)

\* the predicates of the goal detector in the order the claim gives
GoalOrder ==
  << [kws |-> DebugKeywords, label |-> GoalDebug],
     [kws |-> CodeKeywords, label |-> GoalCode],
     [kws |-> SummarizeKeywords, label |-> GoalSummarize],
     [kws |-> WriteKeywords, label |-> GoalWrite],
     [kws |-> AnalyzeKeywords, label |-> GoalAnalyze],
     [kws |-> ExplainKeywords, label |-> GoalExplain],
     [kws |-> CompareKeywords, label |-> GoalCompare],
     [kws |-> TranslateKeywords, label |-> GoalTranslate],
     [kws |-> PlanKeywords, label |-> GoalPlan],
     [kws |-> BrainstormKeywords, label |-> GoalBrainstorm],
     [kws |-> ReviewKeywords, label |-> GoalReview] >>

Occurs(p, kws) == \E k \in kws : Contains(Lower(p), k)

B(cond) == IF cond THEN 1 ELSE 0

\* C8: score_prompt is in 0..100, is 10 for a text that is empty once
\* trimmed, and is otherwise 50 plus 10 for a role phrase, 10 for an
\* output/format word, 5 for more than 80 characters, 10 for a whole word
\* among audience, tone, length, deadline, example(s), 5 for "sources" or
\* "cite": every indicator adds on its own.
C8_AdditiveScore ==
  fn_done =>
    /\ fn_out \in 0..100
    /\ Strip(fn_in) = <<>> => fn_out = 10
    /\ Strip(fn_in) # <<>> =>
         fn_out = 50
           + 10 * B(Occurs(fn_in, {<<"r", "o", "l", "e", ":">>, <<"y", "o", "u", " ", "a", "r", "e">>, <<"a", "s", " ", "a", " ">>}))
           + 10 * B(Occurs(fn_in, {<<"o", "u", "t", "p", "u", "t">>, <<"f", "o", "r", "m", "a", "t">>, <<"j", "s", "o", "n">>, <<"t", "a", "b", "l", "e">>}))
           + 5 * B(Len(fn_in) > 80)
           + 10 * B(\E w \in ConstraintWords : SearchWord(fn_in, w))
           + 5 * B(Occurs(fn_in, {<<"s", "o", "u", "r", "c", "e", "s">>, <<"c", "i", "t", "e">>}))

C8_Witness ==
  /\ fn_done
  /\ Occurs(fn_in, RoleKeywords)
  /\ SearchWord(fn_in, <<"t", "o", "n", "e">>)
  /\ fn_out = 70

\* what each endpoint answers after a failed provider call
FallbackResp ==
  CASE endpoint = "score" ->
         Ok([score |-> score_prompt(req.text),
             rewrite |-> rewrite_prompt_simple(req.text, detect_goal(req.text)),
             goal |-> detect_goal(req.text)])
    [] endpoint = "suggest" -> Ok([suggestions |-> FailedSuggestions])
    [] endpoint = "infer" -> Ok(fallback_metadata(req.prompt))
    [] OTHER -> NoResp

\* C9: a request issues at most one provider call and never retries; nothing
\* is returned while the call is outstanding; after a failed call the handler
\* returns its fallback.
C9_OneCallThenRespond ==
  /\ calls <= 1
  /\ inflight <= calls
  /\ pc = "idle" => calls = 0 /\ resp = NoResp
  /\ pc = "awaiting" => calls = 1 /\ inflight = 1 /\ resp = NoResp
  /\ pc = "responded" =>
       /\ inflight = 0
       /\ resp # NoResp
       /\ reply # NoReply => calls = 1
       /\ Failed => resp = FallbackResp

C9_Witness ==
  /\ Responded("score") /\ reply.kind = "raise"
  /\ calls = 1 /\ inflight = 0
  /\ resp = FallbackResp

RECURSIVE ClaimedTitle(_, _)
\* the title the lines yield when each TITLE: line sets it to its remainder
ClaimedTitle(lines, title) ==
  IF lines = <<>> THEN title
  ELSE
    LET line == Strip(Head(lines)) IN
    IF StartsWith(line, TitlePrefix)
      THEN ClaimedTitle(Tail(lines), Strip(Drop(line, Len(TitlePrefix))))
      ELSE ClaimedTitle(Tail(lines), title)

\* C10: after a successful call the title is the trimmed remainder, after the
\* prefix, of the last line that begins with "TITLE:", and "Untitled Prompt"
\* when there is no such line.
C10_TitleIsRemainder ==
  (Responded("infer") /\ Answered) =>
    resp.body.title = ClaimedTitle(ReplyLines, <<"U", "n", "t", "i", "t", "l", "e", "d", " ", "P", "r", "o", "m", "p", "t">>)

====
